---- MODULE Spec2Model ----
(***************************************************************************)
(* Model of the event normaliser, the field resolvers and the query DSL    *)
(* interpreter of analyzer.py.                                             *)
(*                                                                         *)
(* Representation.                                                         *)
(*   - A Python value is a record [t, n, s]: t is the Python type          *)
(*     ("none", "str", "int", "bool", "list"), n the number of an int or   *)
(*     bool, s the text of a str.                                          *)
(*   - A Python text is a sequence of chunks: every whitespace character   *)
(*     is the chunk " ", every maximal run of other characters is one      *)
(*     chunk. "" is <<>>, " A " is <<" ", "A", " ">>.                      *)
(*   - A raw key is the sequence of its "__"-separated segments, so        *)
(*     output__1__event_name is <<"output", "1", "event_name">>. Segments  *)
(*     are non-empty and neither start nor end with "_"; NameOf gives the  *)
(*     key as written.                                                     *)
(*   - An event (a Python dict) is a sequence of cells [k, v] with         *)
(*     distinct keys, in insertion order; a raw mapping is a sequence of   *)
(*     [id, ev] with distinct ids, in insertion order.                     *)
(*   - A DataFrame is the sequence of its rows, each a function from       *)
(*     column name to value.                                               *)
(***************************************************************************)
EXTENDS Integers, Sequences, FiniteSets, TLC

VARIABLES
    raw,      \* the raw mapping handed to normalize_events
    rows,     \* normalize_events: the list `rows` being built
    idx,      \* normalize_events: position of the loop over raw.items()
    pc,       \* "loop" | "done" | "resolve" | "query"
    df,       \* the DataFrame returned by the last finished normalize_events
    prev,     \* the DataFrames returned by earlier calls on the same mapping
    res,      \* the last call of the two field resolvers, with its arguments
    query,    \* the DSL handed to the last run_query
    result,   \* what the last run_query returned
    cache,    \* the QueryCache: its entries in insertion order, max_size, ttl
    clock,    \* time.time()
    thr,      \* the callers of the cache: position in get/set, locals, outcome
    hist      \* history: the last set of each (query, context), for the claims

\* The state of the analyzer and the state of the cache.
avars == <<raw, rows, idx, pc, df, prev, res, query, result>>
cvars == <<cache, clock, thr, hist>>
vars == <<raw, rows, idx, pc, df, prev, res, query, result, cache, clock, thr, hist>>

\* The cache is not part of a run of the analyzer.
CacheUnused == cache = <<>> /\ clock = 0 /\ thr = <<>> /\ hist = <<>>

-----------------------------------------------------------------------------
(* Python values *)

None == [t |-> "none", n |-> 0, s |-> <<>>]
Txt(s) == [t |-> "str", n |-> 0, s |-> s]
Num(n) == [t |-> "int", n |-> n, s |-> <<>>]
Flag(b) == [t |-> "bool", n |-> IF b THEN 1 ELSE 0, s |-> <<>>]
\* a non-empty list or dict; the code under study never looks inside one
Nested == [t |-> "list", n |-> 0, s |-> <<>>]

Digits == <<"0", "1", "2", "3", "4", "5", "6", "7", "8", "9">>

RECURSIVE IntText(_)
IntText(n) ==
    IF n < 10 THEN Digits[n + 1]
    ELSE IntText(n \div 10) \o Digits[(n % 10) + 1]

\* str(v)
PyStr(v) ==
    CASE v.t = "str" -> v.s
      [] v.t = "int" -> <<IntText(v.n)>>
      [] v.t = "bool" -> IF v.n = 1 THEN <<"True">> ELSE <<"False">>
      [] v.t = "none" -> <<"None">>
      [] OTHER -> <<"[...]">>

\* bool(v)
Truthy(v) ==
    CASE v.t = "str" -> v.s # <<>>
      [] v.t = "int" -> v.n # 0
      [] v.t = "bool" -> v.n = 1
      [] v.t = "none" -> FALSE
      [] OTHER -> TRUE

RECURSIVE LStrip(_)
LStrip(s) == IF s # <<>> /\ Head(s) = " " THEN LStrip(Tail(s)) ELSE s

RECURSIVE RStrip(_)
RStrip(s) ==
    IF s # <<>> /\ s[Len(s)] = " " THEN RStrip(SubSeq(s, 1, Len(s) - 1)) ELSE s

\* s.strip()
Strip(s) == RStrip(LStrip(s))

-----------------------------------------------------------------------------
(* Raw keys *)

RECURSIVE NameOf(_)
NameOf(k) ==
    IF Len(k) = 1 THEN k[1] ELSE k[1] \o "__" \o NameOf(Tail(k))

\* len(k)
KeyLen(k) == Len(NameOf(k))

\* k.startswith(direction + "__")
StartsWith(k, direction) == Len(k) >= 2 /\ k[1] = direction

\* k.endswith("__" + "__".join(suffix))
EndsWith(k, suffix) ==
    /\ Len(k) > Len(suffix)
    /\ SubSeq(k, Len(k) - Len(suffix) + 1, Len(k)) = suffix

\* event_data.get(name)
Get(ev, name) ==
    IF \E i \in 1..Len(ev) : ev[i].k = <<name>>
    THEN ev[CHOOSE i \in 1..Len(ev) : ev[i].k = <<name>>].v
    ELSE None

-----------------------------------------------------------------------------
(* The field resolvers *)

_is_scalar(x) == x.t # "none" /\ x.t # "list"

\* The position, among the positions `hits` of event `ev`, that
\* hits.sort(key=len) puts first: the shortest key, the earliest of them.
FirstShortest(ev, hits) ==
    CHOOSE i \in hits :
        \A j \in hits :
            \/ KeyLen(ev[i].k) < KeyLen(ev[j].k)
            \/ KeyLen(ev[i].k) = KeyLen(ev[j].k) /\ i <= j

\* _scan(prefix, prefer) of _first_io_scalar
_scan(ev, suffixes, prefer_root, prefix, prefer) ==
    LET hits == {i \in 1..Len(ev) :
                    /\ StartsWith(ev[i].k, prefix)
                    /\ \E suf \in suffixes : EndsWith(ev[i].k, <<suf>>)
                    /\ _is_scalar(ev[i].v)
                    /\ ~(prefer /\ Truthy(prefer_root)
                           /\ <<ev[i].k[2]>> # prefer_root.s)}
    IN  IF hits # {}
        THEN LET i == FirstShortest(ev, hits)
             IN  <<Txt(Strip(PyStr(ev[i].v))), Txt(<<ev[i].k[2]>>)>>
        ELSE <<None, None>>

_first_io_scalar(ev, suffixes, prefer_root) ==
    LET g1 == _scan(ev, suffixes, prefer_root, "output", TRUE)
        g2 == _scan(ev, suffixes, prefer_root, "output", FALSE)
        g3 == _scan(ev, suffixes, prefer_root, "input", TRUE)
        g4 == _scan(ev, suffixes, prefer_root, "input", FALSE)
    IN  IF g1[1] # None THEN g1
        ELSE IF g2[1] # None THEN g2
        ELSE IF g3[1] # None THEN g3
        ELSE g4

_first_output_scalar(ev, suffix, prefer_root) ==
    LET own == {i \in 1..Len(ev) :
                   /\ Len(ev[i].k) >= 3
                   /\ ev[i].k[1] = "output"
                   /\ <<ev[i].k[2]>> = prefer_root.s
                   /\ EndsWith(ev[i].k, <<suffix>>)
                   /\ _is_scalar(ev[i].v)}
        hits == {i \in 1..Len(ev) :
                    /\ StartsWith(ev[i].k, "output")
                    /\ EndsWith(ev[i].k, <<suffix>>)
                    /\ _is_scalar(ev[i].v)}
    IN  IF Truthy(prefer_root) /\ own # {}
        THEN LET i == CHOOSE i \in own : \A j \in own : i <= j
             IN  <<Txt(PyStr(ev[i].v)), prefer_root>>
        ELSE IF hits # {}
        THEN LET i == FirstShortest(ev, hits)
             IN  <<Txt(PyStr(ev[i].v)), Txt(<<ev[i].k[2]>>)>>
        ELSE <<None, None>>

-----------------------------------------------------------------------------
(* normalize_events *)

\* The elif chain of the loop over event_data.items(), in source order:
\* the canonical field, the suffix its key must end with, whether the key
\* must also start with output__, and whether the branch also requires the
\* field to be still None.
Rule(field, suffix, outputOnly, once) ==
    [field |-> field, suffix |-> suffix, outputOnly |-> outputOnly, once |-> once]

SuffixRules == <<
    Rule("input_event_id", <<"event_id">>, TRUE, FALSE),
    Rule("email", <<"primary_email">>, FALSE, FALSE),
    Rule("event_url", <<"event_url">>, FALSE, FALSE),
    Rule("zap_url", <<"parent_task_history_link">>, FALSE, FALSE),
    Rule("updated_by_name", <<"updated_by_name">>, FALSE, TRUE),
    Rule("fbc", <<"handl_fbc">>, FALSE, FALSE),
    Rule("fbp", <<"handl_fbp">>, FALSE, FALSE),
    Rule("ip_address", <<"handl_ip">>, FALSE, FALSE),
    Rule("landing_url", <<"handl_url">>, FALSE, FALSE),
    Rule("user_agent", <<"handl_user_agent">>, FALSE, FALSE),
    Rule("utm_campaign", <<"handl_utm_campaign">>, FALSE, FALSE),
    Rule("utm_content", <<"handl_utm_content">>, FALSE, FALSE),
    Rule("utm_medium", <<"handl_utm_medium">>, FALSE, FALSE),
    Rule("utm_source", <<"handl_utm_source">>, FALSE, FALSE),
    Rule("contact_name", <<"lead", "contact", "name">>, FALSE, TRUE),
    Rule("contact_phone", <<"lead", "contact", "phone", "phone">>, FALSE, TRUE),
    Rule("contact_phone_country",
         <<"lead", "contact", "phone", "country">>, FALSE, TRUE) >>

SuffixFields == {SuffixRules[r].field : r \in 1..Len(SuffixRules)}

\* The branch condition of rule r for key k, given the locals so far.
Branch(r, k, locals) ==
    /\ SuffixRules[r].outputOnly => StartsWith(k, "output")
    /\ EndsWith(k, SuffixRules[r].suffix)
    /\ SuffixRules[r].once => locals[SuffixRules[r].field] = None

\* One iteration of the loop over event_data.items(): the first branch of
\* the chain whose condition holds assigns its local.
ScanCell(locals, cell) ==
    LET taken == {r \in 1..Len(SuffixRules) : Branch(r, cell.k, locals)}
    IN  IF taken = {} THEN locals
        ELSE LET r == CHOOSE r \in taken : \A q \in taken : r <= q
             IN  [locals EXCEPT ![SuffixRules[r].field] = cell.v]

RECURSIVE ScanCells(_, _, _)
ScanCells(locals, ev, i) ==
    IF i > Len(ev) THEN locals
    ELSE ScanCells(ScanCell(locals, ev[i]), ev, i + 1)

\* obj_root = str(event_data.get("object_id") or "")
ObjRoot(ev) ==
    LET oid == Get(ev, "object_id")
    IN  Txt(PyStr(IF Truthy(oid) THEN oid ELSE Txt(<<>>)))

\* The dict `base` of one event, after event_name and isfire are added.
BaseOf(event_id, ev) ==
    LET locals == ScanCells([f \in SuffixFields |-> None], ev, 1)
        oid == Get(ev, "object_id")
        ev_name == _first_output_scalar(ev, "event_name", ObjRoot(ev))[1]
        isfire_s == _first_output_scalar(ev, "isfire", None)[1]
        direct == [event_id |-> Txt(<<event_id>>),
                   date |-> Get(ev, "date"),
                   status |-> Get(ev, "status"),
                   object_id |-> oid,
                   object_title |-> Get(ev, "object_title"),
                   event_name |-> ev_name,
                   isfire |-> isfire_s]
    IN  [c \in DOMAIN direct \cup SuffixFields |->
            IF c \in SuffixFields THEN locals[c] ELSE direct[c]]

\* pd.DataFrame(rows): the columns are the keys of the row dicts; a row
\* lacking a column would hold a missing value there.
DataFrame(rs) ==
    LET cols == UNION {DOMAIN rs[i] : i \in 1..Len(rs)}
    IN  [i \in 1..Len(rs) |->
            [c \in cols |-> IF c \in DOMAIN rs[i] THEN rs[i][c] ELSE None]]

Columns(frame) == UNION {DOMAIN frame[i] : i \in 1..Len(frame)}

\* NormalizeEvent with rows.insert(0, base) for rows.append(base).
NormalizeEvent_Prepends ==
    /\ pc = "loop"
    /\ idx <= Len(raw)
    /\ rows' = <<BaseOf(raw[idx].id, raw[idx].ev)>> \o rows
    /\ idx' = idx + 1
    /\ UNCHANGED <<raw, pc, df, prev, res, query, result>>
    /\ UNCHANGED cvars

\* One pass of `for event_id, event_data in raw.items()`.
NormalizeEvent ==
    /\ pc = "loop"
    /\ idx <= Len(raw)
    /\ rows' = Append(rows, BaseOf(raw[idx].id, raw[idx].ev))
    /\ idx' = idx + 1
    /\ UNCHANGED <<raw, pc, df, prev, res, query, result>>
    /\ UNCHANGED cvars

\* The loop is over: build df_events and return it.
ReturnFrame ==
    /\ pc = "loop"
    /\ idx > Len(raw)
    /\ df' = DataFrame(rows)
    /\ pc' = "done"
    /\ UNCHANGED <<raw, rows, idx, prev, res, query, result>>
    /\ UNCHANGED cvars

\* Another request normalises the same mapping again (app.py does so for
\* every query); the frame of the earlier call is kept for comparison.
NormalizeAgain ==
    /\ pc = "done"
    /\ prev' = <<df>>
    /\ rows' = <<>>
    /\ idx' = 1
    /\ pc' = "loop"
    /\ UNCHANGED <<raw, df, res, query, result>>
    /\ UNCHANGED cvars

-----------------------------------------------------------------------------
(* run_query *)

(* A DSL text is the sequence of its "|"-separated parts. A part is         *)
(* [kw, pred, cols, token]: kw is the keyword the part starts with ("where",*)
(* "count by", "group by", "select *", "limit", "offset", or "other" for a  *)
(* part no branch of the parser takes); pred is the text after `where` as   *)
(* the sequence of its and-joined terms; cols the comma-separated columns   *)
(* after `count by` / `group by`; token the text after `limit` / `offset`:  *)
(* Num(n) for the digits of an integer, Txt(..) for any other text.         *)
(* A term is [form, col, lit]: form "eq" is `col == lit` with lit a quoted  *)
(* string (Txt) or true/false (Flag).                                       *)

Part(kw, pred, cols, token) ==
    [kw |-> kw, pred |-> pred, cols |-> cols, token |-> token]

Where(pred) == Part("where", pred, <<>>, None)
CountBy(cols) == Part("count by", <<>>, cols, None)
GroupBy(cols) == Part("group by", <<>>, cols, None)
SelectAll == Part("select *", <<>>, <<>>, None)
Limit(token) == Part("limit", <<>>, <<>>, token)
Offset(token) == Part("offset", <<>>, <<>>, token)

Eq(col, lit) == [form |-> "eq", col |-> col, lit |-> lit]

\* DEFAULT_LIMIT with half its value.
DEFAULT_LIMIT_Halved == 100 \div 2

DEFAULT_LIMIT == 100

Max(a, b) == IF a >= b THEN a ELSE b
Min(a, b) == IF a <= b THEN a ELSE b

\* What run_query returns, or the exception it raises.
Ok(rs, meta) == [kind |-> "ok", rows |-> rs, meta |-> meta, exc |-> "", token |-> None]
NoMeta == [k \in {} |-> None]
Raise(exc, token) ==
    [kind |-> "error", rows |-> <<>>, meta |-> NoMeta, exc |-> exc, token |-> token]
\* No call yet.
NoResult ==
    [kind |-> "none", rows |-> <<>>, meta |-> NoMeta, exc |-> "", token |-> None]

\* The locals of the parser before the loop over the parts.
ParseStart ==
    [where_clause |-> <<>>, group_by |-> <<>>, select_all |-> FALSE,
     want_count |-> FALSE, limit_n |-> None, offset_n |-> 0,
     exc |-> "", token |-> None]

\* ParsePart with the `select *` branch doing nothing.
ParsePart_IgnoresSelect(st, part) ==
    CASE part.kw = "where" -> [st EXCEPT !.where_clause = part.pred]
      [] part.kw = "count by" ->
            [st EXCEPT !.want_count = TRUE, !.group_by = part.cols]
      [] part.kw = "group by" -> [st EXCEPT !.group_by = part.cols]
      [] part.kw = "select *" -> st
      [] part.kw = "limit" ->
            IF part.token \in {Txt(<<"all">>), Txt(<<"*">>)}
            THEN [st EXCEPT !.limit_n = None]
            ELSE IF part.token.t = "int"
            THEN [st EXCEPT !.limit_n = Num(Max(0, part.token.n))]
            ELSE [st EXCEPT !.exc = "ValueError", !.token = part.token]
      [] part.kw = "offset" ->
            IF part.token.t = "int"
            THEN [st EXCEPT !.offset_n = Max(0, part.token.n)]
            ELSE [st EXCEPT !.exc = "ValueError", !.token = part.token]
      [] OTHER -> st

\* ParsePart with a malformed limit or offset token passed over.
ParsePart_SkipsBadToken(st, part) ==
    CASE part.kw = "where" -> [st EXCEPT !.where_clause = part.pred]
      [] part.kw = "count by" ->
            [st EXCEPT !.want_count = TRUE, !.group_by = part.cols]
      [] part.kw = "group by" -> [st EXCEPT !.group_by = part.cols]
      [] part.kw = "select *" -> [st EXCEPT !.select_all = TRUE]
      [] part.kw = "limit" ->
            IF part.token \in {Txt(<<"all">>), Txt(<<"*">>)}
            THEN [st EXCEPT !.limit_n = None]
            ELSE IF part.token.t = "int"
            THEN [st EXCEPT !.limit_n = Num(Max(0, part.token.n))]
            ELSE st
      [] part.kw = "offset" ->
            IF part.token.t = "int"
            THEN [st EXCEPT !.offset_n = Max(0, part.token.n)]
            ELSE st
      [] OTHER -> st

\* One pass of `for part in parts`.
ParsePart(st, part) ==
    CASE part.kw = "where" -> [st EXCEPT !.where_clause = part.pred]
      [] part.kw = "count by" ->
            [st EXCEPT !.want_count = TRUE, !.group_by = part.cols]
      [] part.kw = "group by" -> [st EXCEPT !.group_by = part.cols]
      [] part.kw = "select *" -> [st EXCEPT !.select_all = TRUE]
      [] part.kw = "limit" ->
            IF part.token \in {Txt(<<"all">>), Txt(<<"*">>)}
            THEN [st EXCEPT !.limit_n = None]
            ELSE IF part.token.t = "int"
            THEN [st EXCEPT !.limit_n = Num(Max(0, part.token.n))]
            ELSE [st EXCEPT !.exc = "ValueError", !.token = part.token]
      [] part.kw = "offset" ->
            IF part.token.t = "int"
            THEN [st EXCEPT !.offset_n = Max(0, part.token.n)]
            ELSE [st EXCEPT !.exc = "ValueError", !.token = part.token]
      [] OTHER -> st

\* The loop over the parts; it stops at the first part that raises.
RECURSIVE Parse(_, _, _)
Parse(st, dsl, i) ==
    IF i > Len(dsl) \/ st.exc # "" THEN st
    ELSE Parse(ParsePart(st, dsl[i]), dsl, i + 1)

\* Elementwise `column == literal`: a missing value equals nothing.
PyEq(a, b) ==
    IF a.t \in {"int", "bool"} /\ b.t \in {"int", "bool"} THEN a.n = b.n
    ELSE a.t = "str" /\ b.t = "str" /\ a.s = b.s

\* frame[mask]: the rows at the positions `keep`, in the order of the frame.
Pick(frame, keep) ==
    LET at == SelectSeq([i \in 1..Len(frame) |-> i], LAMBDA i : i \in keep)
    IN  [j \in 1..Len(at) |-> frame[at[j]]]

\* df.query(expr) raises on a term it cannot evaluate: a name that is no
\* column, or a term that is no comparison.
QueryRaises(frame, pred) ==
    \E j \in 1..Len(pred) :
        pred[j].form # "eq" \/ pred[j].col \notin Columns(frame)

\* The conditions the fallback builds: the positions of the terms
\* `col == "value"` and `col == true/false` on a known column.
FallbackTerms(frame, pred) ==
    {j \in 1..Len(pred) :
        /\ pred[j].form = "eq"
        /\ pred[j].lit.t \in {"str", "bool"}
        /\ pred[j].col \in Columns(frame)}

\* df[col].astype("boolean") raises on a value that is neither missing nor
\* a bool.
AsBooleanRaises(frame, col) ==
    \E i \in 1..Len(frame) : frame[i][col].t \notin {"none", "bool"}

\* The WHERE step: the filtered frame, or the exception of the fallback.
ApplyWhere(frame, pred) ==
    IF pred = <<>> THEN [exc |-> "", frame |-> frame]
    ELSE IF ~QueryRaises(frame, pred)
    THEN LET keep == {i \in 1..Len(frame) :
                         \A j \in 1..Len(pred) :
                             PyEq(frame[i][pred[j].col], pred[j].lit)}
         IN  [exc |-> "", frame |-> Pick(frame, keep)]
    ELSE LET terms == FallbackTerms(frame, pred)
             keep == {i \in 1..Len(frame) :
                         \A j \in terms :
                             PyEq(frame[i][pred[j].col], pred[j].lit)}
         IN  IF \E j \in terms :
                    pred[j].lit.t = "bool" /\ AsBooleanRaises(frame, pred[j].col)
             THEN [exc |-> "TypeError", frame |-> <<>>]
             ELSE [exc |-> "", frame |-> Pick(frame, keep)]

\* _window starting at the first row whatever the offset.
_window_IgnoresOffset(frame, limit_n, offset_n) ==
    IF limit_n = None THEN frame
    ELSE SubSeq(frame, 1, Min(Len(frame), limit_n.n))

\* _window(frame)
_window(frame, limit_n, offset_n) ==
    IF limit_n = None THEN SubSeq(frame, offset_n + 1, Len(frame))
    ELSE SubSeq(frame, offset_n + 1, Min(Len(frame), offset_n + limit_n.n))

\* The key tuple of a row under the grouping columns.
KeyOf(row, cols) == [j \in 1..Len(cols) |-> row[cols[j]]]

\* GroupCounts with dropna=True: rows with a missing key value are left out.
RECURSIVE GroupCounts_DropsNull(_, _, _)
GroupCounts_DropsNull(frame, cols, seen) ==
    LET rest == {i \in 1..Len(frame) :
                    /\ KeyOf(frame[i], cols) \notin seen
                    /\ \A j \in 1..Len(cols) : frame[i][cols[j]] # None}
    IN  IF rest = {} THEN <<>>
        ELSE LET first == CHOOSE i \in rest : \A h \in rest : i <= h
                 key == KeyOf(frame[first], cols)
                 n == Cardinality({i \in 1..Len(frame) : KeyOf(frame[i], cols) = key})
                 names == {cols[j] : j \in 1..Len(cols)}
                 row == [c \in names \cup {"count"} |->
                            IF c \in names THEN frame[first][c] ELSE Num(n)]
             IN  <<row>> \o GroupCounts_DropsNull(frame, cols, seen \cup {key})

\* groupby(cols, dropna=False, sort=False) with the group sizes: one row per
\* distinct key tuple, in the order the tuples first appear. `seen` holds
\* the keys already given a row.
RECURSIVE GroupCounts(_, _, _)
GroupCounts(frame, cols, seen) ==
    LET rest == {i \in 1..Len(frame) : KeyOf(frame[i], cols) \notin seen}
    IN  IF rest = {} THEN <<>>
        ELSE LET first == CHOOSE i \in rest : \A h \in rest : i <= h
                 key == KeyOf(frame[first], cols)
                 n == Cardinality({i \in 1..Len(frame) : KeyOf(frame[i], cols) = key})
                 names == {cols[j] : j \in 1..Len(cols)}
                 row == [c \in names \cup {"count"} |->
                            IF c \in names THEN frame[first][c] ELSE Num(n)]
             IN  <<row>> \o GroupCounts(frame, cols, seen \cup {key})

\* Aggregate with an unknown grouping column giving no groups for a
\* KeyError.
Aggregate_NoKeyError(frame, d, st) ==
    LET known == \A j \in 1..Len(st.group_by) : st.group_by[j] \in Columns(frame)
        grp == IF known THEN GroupCounts(d, st.group_by, {}) ELSE <<>>
        out == IF st.limit_n = None /\ st.offset_n = 0 THEN grp
               ELSE _window(grp, st.limit_n, st.offset_n)
    IN  Ok(out, [group_by |-> st.group_by,
                 total_rows |-> Num(Len(grp)),
                 limit |-> st.limit_n,
                 offset |-> Num(st.offset_n)])

\* The aggregations: the groups of the filtered frame d under st.group_by,
\* windowed, or the KeyError groupby raises on a name that is no column.
Aggregate(frame, d, st) ==
    LET full == st.limit_n = None /\ st.offset_n = 0
    IN  IF \E j \in 1..Len(st.group_by) : st.group_by[j] \notin Columns(frame)
        THEN Raise("KeyError", None)
        ELSE LET grp == GroupCounts(d, st.group_by, {})
                 out == IF full THEN grp
                        ELSE _window(grp, st.limit_n, st.offset_n)
                 meta == [group_by |-> st.group_by,
                          total_rows |-> Num(Len(grp)),
                          limit |-> st.limit_n,
                          offset |-> Num(st.offset_n)]
             IN  IF st.want_count
                 THEN Ok(out, [k \in DOMAIN meta \cup {"count"} |->
                                  IF k = "count" THEN Flag(TRUE) ELSE meta[k]])
                 ELSE Ok(out, meta)

\* run_query past the check for an empty frame: parse, filter, aggregate or
\* project, and window.
Clauses(frame, dsl) ==
    LET st == Parse(ParseStart, dsl, 1)
        w == ApplyWhere(frame, st.where_clause)
        d == w.frame
        full == st.limit_n = None /\ st.offset_n = 0
    IN  IF st.exc # "" THEN Raise(st.exc, st.token)
        ELSE IF w.exc # "" THEN Raise(w.exc, None)
        ELSE IF st.group_by # <<>> THEN Aggregate(frame, d, st)
        ELSE IF st.select_all
        THEN LET out == IF full THEN d ELSE _window(d, st.limit_n, st.offset_n)
             IN  Ok(out, [select |-> Txt(<<"*">>),
                          rows |-> Num(Len(out)),
                          total_rows |-> Num(Len(d)),
                          limit |-> st.limit_n,
                          offset |-> Num(st.offset_n)])
        ELSE IF full
        THEN LET out == SubSeq(d, 1, Min(Len(d), DEFAULT_LIMIT))
             IN  Ok(out, [rows |-> Num(Len(out)),
                          total_rows |-> Num(Len(d)),
                          limit |-> Num(DEFAULT_LIMIT),
                          offset |-> Num(0),
                          note |-> Txt(<<"default", " ", "limit", " ", "applied">>)])
        ELSE LET out == _window(d, st.limit_n, st.offset_n)
             IN  Ok(out, [rows |-> Num(Len(out)),
                          total_rows |-> Num(Len(d)),
                          limit |-> st.limit_n,
                          offset |-> Num(st.offset_n)])

\* run_query without its check for an empty frame.
run_query_NoShortCircuit(frame, dsl) == Clauses(frame, dsl)

run_query(frame, dsl) ==
    IF frame = <<>> THEN Ok(<<>>, [note |-> Txt(<<"no", " ", "data">>)])
    ELSE Clauses(frame, dsl)

\* RunQuery with the filter and the window applied to the frame itself
\* (no df_events.copy(), in-place selection).
RunQuery_InPlace(dsl) ==
    /\ pc = "done"
    /\ query' = dsl
    /\ result' = run_query(df, dsl)
    /\ df' = IF result'.kind = "ok" /\ "rows" \in DOMAIN result'.meta
             THEN result'.rows ELSE df
    /\ UNCHANGED <<raw, rows, idx, pc, prev, res>>
    /\ UNCHANGED cvars

\* api_query: run_query on the frame normalize_events returned.
RunQuery(dsl) ==
    /\ pc = "done"
    /\ query' = dsl
    /\ result' = run_query(df, dsl)
    /\ UNCHANGED <<raw, rows, idx, pc, df, prev, res>>
    /\ UNCHANGED cvars

-----------------------------------------------------------------------------
(* The raw mappings the normaliser is run on *)

\* A mapping has at most MaxSize events and cells (key/value pairs) together.
MaxSize == 4

KObjectId == <<"object_id">>
KName1 == <<"output", "1", "event_name">>
KDeep1 == <<"output", "1", "step", "event_name">>
KName0 == <<"output", "0", "event_name">>
KInName == <<"input", "1", "event_name">>
KFire == <<"output", "1", "isfire">>
KOutMail == <<"output", "1", "primary_email">>
KInMail == <<"input", "1", "primary_email">>
KText == <<"output", "2", "text">>

RawKeys ==
    {KObjectId, KName1, KDeep1, KName0, KInName, KFire, KOutMail, KInMail, KText}

\* The values a key is given. Keys of one suffix hold different texts, so
\* that a resolved value tells which key it was read from.
ValuesOf(k) ==
    CASE k = KObjectId -> {Num(0), Num(1)}
      [] k = KName1 -> {Txt(<<" ", "B", " ">>), Nested}
      [] k = KDeep1 -> {Txt(<<"A">>)}
      [] k = KName0 -> {Txt(<<"C">>)}
      [] k = KInName -> {Txt(<<"D">>)}
      [] k = KFire -> {Txt(<<"yes">>)}
      [] k = KOutMail -> {Txt(<<"a@x">>), Nested}
      [] k = KInMail -> {Txt(<<"b@x">>)}
      [] OTHER -> {Txt(<<"t">>)}

Cells == UNION {{[k |-> k, v |-> v] : v \in ValuesOf(k)} : k \in RawKeys}

\* The dicts of exactly n cells: distinct keys, every insertion order.
EventsOfLen(n) ==
    {e \in [1..n -> Cells] : \A i, j \in 1..n : i < j => e[i].k # e[j].k}

EventsUpTo(m) == UNION {EventsOfLen(n) : n \in 0..m}

\* The sequences of n dicts holding at most `budget` cells together.
RECURSIVE EventSeqs(_, _)
EventSeqs(n, budget) ==
    IF n = 0 THEN {<<>>}
    ELSE UNION {{<<e>> \o rest : rest \in EventSeqs(n - 1, budget - Len(e))} :
                    e \in EventsUpTo(budget)}

EventId(i) == "e" \o IntText(i)

\* The orders in which n event ids can have been inserted.
IdSeqs(n) ==
    {p \in [1..n -> {EventId(i) : i \in 1..n}] :
        \A i, j \in 1..n : i < j => p[i] # p[j]}

Mappings(n) ==
    {[i \in 1..n |-> [id |-> ids[i], ev |-> evs[i]]] :
        ids \in IdSeqs(n), evs \in EventSeqs(n, MaxSize - n)}

\* The mappings of at most m events and cells together.
RawMappings(m) == UNION {Mappings(n) : n \in 0..m}

NoCall == [fn |-> "none"]

Init ==
    /\ raw \in RawMappings(MaxSize)
    /\ rows = <<>>
    /\ idx = 1
    /\ pc = "loop"
    /\ df = <<>>
    /\ prev = <<>>
    /\ res = NoCall
    /\ query = <<>>
    /\ result = NoResult
    /\ CacheUnused

Next == NormalizeEvent \/ ReturnFrame \/ NormalizeAgain

Spec == Init /\ [][Next]_vars

-----------------------------------------------------------------------------
(* The resolvers on their own *)

\* The suffix lists and preferred roots the resolvers are called with.
SuffixLists == {<<"event_name">>, <<"isfire">>, <<"isfire", "event_name">>}
PreferRoots == {None, Txt(<<>>), Txt(<<"0">>), Txt(<<"1">>)}

InitResolve ==
    /\ raw \in Mappings(1)
    /\ rows = <<>>
    /\ idx = 1
    /\ pc = "resolve"
    /\ df = <<>>
    /\ prev = <<>>
    /\ res = NoCall
    /\ query = <<>>
    /\ result = NoResult
    /\ CacheUnused

\* Both resolvers on the event: _first_io_scalar with the list of
\* suffixes, _first_output_scalar with its first suffix.
Resolve ==
    /\ pc = "resolve"
    /\ \E suffixes \in SuffixLists, prefer_root \in PreferRoots :
        res' = [fn |-> "resolve",
                suffixes |-> suffixes,
                prefer_root |-> prefer_root,
                io |-> _first_io_scalar(
                           raw[1].ev,
                           {suffixes[j] : j \in 1..Len(suffixes)},
                           prefer_root),
                out |-> _first_output_scalar(raw[1].ev, suffixes[1], prefer_root)]
    /\ UNCHANGED <<raw, rows, idx, pc, df, prev, query, result>>
    /\ UNCHANGED cvars

NextResolve == Resolve

SpecResolve == InitResolve /\ [][NextResolve]_vars

-----------------------------------------------------------------------------
(* The query endpoint: normalize_events, then run_query *)

\* The mappings queried hold at most MaxQueryEvents events.
MaxQueryEvents == 2

KStatus == <<"status">>
KQName == <<"output", "305546688", "event_name">>
KQFire == <<"output", "305546688", "isfire">>
KQText == <<"output", "263780428", "text">>

Schedule == Txt(<<"Schedule">>)
Registration == Txt(<<"CompleteRegistration">>)
Yes == Txt(<<"yes">>)
No == Txt(<<"no">>)
Success == Txt(<<"success">>)
Failed == Txt(<<"failed">>)
NoAdFound ==
    Txt(<<"No", " ", "ad_id", " ", "or", " ", "adset_id", " ", "found">>)

Cell(k, v) == [k |-> k, v |-> v]

\* test_data of test_dynamic_fields.py
TestData == <<
    [id |-> "event_001", ev |-> <<
        Cell(<<"date">>, Txt(<<"2024-01-15">>)),
        Cell(KStatus, Success),
        Cell(KObjectId, Txt(<<"12345">>)),
        Cell(<<"object_title">>, Txt(<<"Test", " ", "Event", " ", "1">>)),
        Cell(KQName, Schedule),
        Cell(KQFire, Yes),
        Cell(KQText, NoAdFound),
        Cell(<<"output", "123456", "primary_email">>, Txt(<<"test@example.com">>)),
        Cell(<<"custom_field_1">>, Txt(<<"value1">>)),
        Cell(<<"custom_field_2">>, Txt(<<"value2">>)) >>],
    [id |-> "event_002", ev |-> <<
        Cell(<<"date">>, Txt(<<"2024-01-16">>)),
        Cell(KStatus, Success),
        Cell(KObjectId, Txt(<<"12346">>)),
        Cell(<<"object_title">>, Txt(<<"Test", " ", "Event", " ", "2">>)),
        Cell(KQName, Schedule),
        Cell(KQFire, No),
        Cell(KQText, Txt(<<"Success">>)),
        Cell(<<"output", "123456", "primary_email">>, Txt(<<"test2@example.com">>)) >>],
    [id |-> "event_003", ev |-> <<
        Cell(<<"date">>, Txt(<<"2024-01-17">>)),
        Cell(KStatus, Failed),
        Cell(KObjectId, Txt(<<"12347">>)),
        Cell(<<"object_title">>, Txt(<<"Test", " ", "Event", " ", "3">>)),
        Cell(KQName, Registration),
        Cell(KQFire, Yes),
        Cell(KQText, NoAdFound) >>],
    [id |-> "event_004", ev |-> <<
        Cell(<<"date">>, Txt(<<"2024-01-18">>)),
        Cell(KStatus, Success),
        Cell(KObjectId, Txt(<<"12348">>)),
        Cell(<<"object_title">>, Txt(<<"Test", " ", "Event", " ", "4">>)),
        Cell(KQName, Schedule),
        Cell(KQFire, Yes),
        Cell(KQText, Txt(<<"All", " ", "good">>)) >> ] >>

\* dict literal: the cells whose value is given, in the order written.
RECURSIVE Present(_)
Present(cells) ==
    IF cells = <<>> THEN <<>>
    ELSE IF Head(cells).v = None THEN Present(Tail(cells))
    ELSE <<Head(cells)>> \o Present(Tail(cells))

\* The events of the other mappings: a status or none, an event name, an
\* isfire of yes or no, and the text key or not.
QueryEvents ==
    {Present(<<Cell(KStatus, st), Cell(KQName, nm), Cell(KQFire, fi), Cell(KQText, tx)>>) :
        st \in {None, Success, Failed}, nm \in {Schedule, Registration},
        fi \in {Yes, No}, tx \in {None, NoAdFound}}

QueryMappings(m) ==
    {TestData} \cup
    UNION {{[i \in 1..n |-> [id |-> EventId(i), ev |-> evs[i]]] :
               evs \in [1..n -> QueryEvents]} : n \in 0..m}

\* where col == "value" | and count by col, for raw keys and canonical columns
QueryColumns == {"status", "event_name", NameOf(KQName), NameOf(KQText)}
QueryValues == {Success, Schedule, NoAdFound}

WhereEq(col, v) == <<Where(<<Eq(col, v)>>)>>
CountByCol(col) == <<CountBy(<<col>>)>>

\* where event_name == "Schedule" and isfire == true
ScheduleFired ==
    <<Where(<<Eq("event_name", Schedule), Eq("isfire", Flag(TRUE))>>)>>

\* where output__263780428__text == "No ad_id or adset_id found" and isfire == true
TextFired ==
    <<Where(<<Eq(NameOf(KQText), NoAdFound), Eq("isfire", Flag(TRUE))>>)>>

Queries ==
    {WhereEq(col, v) : col \in QueryColumns, v \in QueryValues}
    \cup {CountByCol(col) : col \in QueryColumns}
    \cup {ScheduleFired, TextFired}

InitQuery ==
    /\ raw \in QueryMappings(MaxQueryEvents)
    /\ rows = <<>>
    /\ idx = 1
    /\ pc = "loop"
    /\ df = <<>>
    /\ prev = <<>>
    /\ res = NoCall
    /\ query = <<>>
    /\ result = NoResult
    /\ CacheUnused

NextQuery ==
    \/ NormalizeEvent
    \/ ReturnFrame
    \/ \E dsl \in Queries : RunQuery(dsl)

SpecQuery == InitQuery /\ [][NextQuery]_vars

-----------------------------------------------------------------------------
(* Pagination and grouping: run_query on small and on large datasets *)

\* The small mappings hold at most MaxPageEvents events, the large one
\* ManyRows events, and a DSL text at most MaxClauses clauses.
MaxPageEvents == 2
ManyRows == 150
MaxClauses == 3

\* The events of the small mappings: with a status, or without one.
PageEvents ==
    {<<Cell(KStatus, Success), Cell(KQName, Schedule)>>,
     <<Cell(KQName, Registration)>>}

\* A generated mapping in the manner of generate_test_data.py: the fields
\* of event i are functions of i.
ManyEvents ==
    [i \in 1..ManyRows |->
        [id |-> EventId(i),
         ev |-> Present(<<
             Cell(KStatus, IF i % 7 = 1 THEN None
                           ELSE IF i % 5 = 0 THEN Failed ELSE Success),
             Cell(KQName, IF i % 2 = 0 THEN Schedule ELSE Registration)>>)]]

PageMappings(m) ==
    {TestData, ManyEvents} \cup
    UNION {{[i \in 1..n |-> [id |-> EventId(i), ev |-> evs[i]]] :
               evs \in [1..n -> PageEvents]} : n \in 0..m}

\* A where term df.query cannot parse and the fallback does not match.
Unparsed == [form |-> "other", col |-> "", lit |-> None]

\* The clauses a DSL text is drawn from: integer, sentinel and malformed
\* tokens, known and unknown grouping columns.
PageClauses ==
    {Where(<<Eq("status", Success)>>), Where(<<Unparsed>>),
     CountBy(<<"status">>), CountBy(<<"nope">>),
     GroupBy(<<"event_name">>), GroupBy(<<"status">>),
     SelectAll,
     Limit(Num(0)), Limit(Num(1)), Limit(Txt(<<"all">>)), Limit(Txt(<<"*">>)),
     Limit(Txt(<<"abc">>)),
     Offset(Num(0)), Offset(Num(1)), Offset(Txt(<<"x">>))}

\* The DSL texts: every order of at most MaxClauses clauses of pairwise
\* distinct types.
PageQueries ==
    UNION {{q \in [1..n -> PageClauses] :
               \A i, j \in 1..n : i < j => q[i].kw # q[j].kw} :
           n \in 0..MaxClauses}

InitPage ==
    /\ raw \in PageMappings(MaxPageEvents)
    /\ rows = <<>>
    /\ idx = 1
    /\ pc = "loop"
    /\ df = <<>>
    /\ prev = <<>>
    /\ res = NoCall
    /\ query = <<>>
    /\ result = NoResult
    /\ CacheUnused

\* One request: run_query is a function of the frame and the text, so a
\* second call on the same frame adds no behaviour.
NextPage ==
    \/ NormalizeEvent
    \/ ReturnFrame
    \/ /\ pc = "done"
       /\ result = NoResult
       /\ \E dsl \in PageQueries : RunQuery(dsl)

SpecPage == InitPage /\ [][NextPage]_vars

-----------------------------------------------------------------------------
(* Repeated queries on one dataset *)

\* The texts run again and again on the frame of one mapping.
RepeatQueries ==
    {<<>>,
     <<Where(<<Eq("status", Success)>>)>>,
     <<CountBy(<<"status">>)>>,
     <<GroupBy(<<"event_name">>), Limit(Num(1))>>,
     <<SelectAll, Offset(Num(1))>>,
     <<Where(<<Unparsed>>), Limit(Num(1))>>,
     <<Limit(Txt(<<"abc">>))>>}

InitRepeat == InitPage

NextRepeat ==
    \/ NormalizeEvent
    \/ ReturnFrame
    \/ \E dsl \in RepeatQueries : RunQuery(dsl)

SpecRepeat == InitRepeat /\ [][NextRepeat]_vars

-----------------------------------------------------------------------------
(* build_catalog *)

\* placeholder = "<None>"
placeholder == Txt(<<"<None>">>)

\* s.astype("string").fillna(placeholder): the text of every value, the
\* placeholder for a missing one.
AsStringFilled(s) ==
    [i \in 1..Len(s) |-> IF s[i] = None THEN placeholder ELSE Txt(PyStr(s[i]))]

\* The counts of value_counts before sorting: one entry per distinct label,
\* in order of first appearance.
Tally(s2) ==
    LET firsts == SelectSeq([i \in 1..Len(s2) |-> i],
                            LAMBDA i : \A h \in 1..(i - 1) : s2[h] # s2[i])
    IN  [j \in 1..Len(firsts) |->
            [key |-> s2[firsts[j]],
             count |-> Cardinality({i \in 1..Len(s2) : s2[i] = s2[firsts[j]]})]]

\* The entries by descending count, entries of equal count in the order
\* they have in tab.
StableDescending(tab) ==
    LET place(i) == 1 + Cardinality({j \in 1..Len(tab) :
                        \/ tab[j].count > tab[i].count
                        \/ tab[j].count = tab[i].count /\ j < i})
    IN  [q \in 1..Len(tab) |-> tab[CHOOSE i \in 1..Len(tab) : place(i) = q]]

\* The orders of the members of a sequence.
Shuffles(s) ==
    {[i \in 1..Len(s) |-> s[p[i]]] :
        p \in {f \in [1..Len(s) -> 1..Len(s)] :
                  \A i, j \in 1..Len(s) : i < j => f[i] # f[j]}}

\* value_counts(sort=True) sorts by count with the default sort, which does
\* not fix the order of entries of equal count: every order of each run of
\* equal counts is a possible outcome.
RECURSIVE TieOrders(_)
TieOrders(sorted) ==
    IF sorted = <<>> THEN {<<>>}
    ELSE LET k == Cardinality({i \in 1..Len(sorted) : sorted[i].count = sorted[1].count})
         IN  {run \o rest : run \in Shuffles(SubSeq(sorted, 1, k)),
                            rest \in TieOrders(SubSeq(sorted, k + 1, Len(sorted)))}

\* _value_counts_safe(s, top): the tables it can return. A table is the
\* dict `out` as the sequence of its items; top is None or Num(n).
_value_counts_safe(s, top) ==
    {LET vc == IF top = None THEN sorted
               ELSE SubSeq(sorted, 1, Min(Len(sorted), top.n))
     IN  [j \in 1..Len(vc) |->
             [key |-> IF vc[j].key = placeholder THEN None ELSE vc[j].key,
              count |-> vc[j].count]] :
        sorted \in TieOrders(StableDescending(Tally(AsStringFilled(s))))}

\* top=50 for by_event_name
TOP_EVENT_NAMES == 50

\* A column of the frame as a Series.
Series(frame, col) == [i \in 1..Len(frame) |-> frame[i][col]]

\* build_catalog(df_events): the catalogs it can return. The frame of
\* normalize_events has no column event_name_root or isfire_root, and no
\* column at all when it has no row.
build_catalog(frame) ==
    IF frame = <<>>
    THEN {[fn |-> "build_catalog", columns |-> {},
           by_status |-> <<>>, by_event_name |-> <<>>, by_isfire |-> <<>>]}
    ELSE {[fn |-> "build_catalog", columns |-> Columns(frame),
           by_status |-> st, by_event_name |-> en, by_isfire |-> fi] :
            st \in _value_counts_safe(Series(frame, "status"), None),
            en \in _value_counts_safe(Series(frame, "event_name"), Num(TOP_EVENT_NAMES)),
            fi \in _value_counts_safe(Series(frame, "isfire"), None)}

\* upload: catalog = build_catalog(df_events)
BuildCatalog ==
    /\ pc = "done"
    /\ res = NoCall
    /\ res' \in build_catalog(df)
    /\ UNCHANGED <<raw, rows, idx, pc, df, prev, query, result>>
    /\ UNCHANGED cvars

\* The small mappings catalogued hold at most MaxCatalogEvents events; the
\* large one holds ManyNames event names, the j-th of them j times.
MaxCatalogEvents == 2
ManyNames == 51

CatalogEvents ==
    {Present(<<Cell(KStatus, st), Cell(KQName, nm), Cell(KQFire, fi)>>) :
        st \in {None, Success, Failed, placeholder},
        nm \in {Schedule, Registration},
        fi \in {None, Yes}}

\* Event i of the large mapping bears name number NameNo(i).
NameNo(i) == CHOOSE j \in 1..ManyNames : (j - 1) * j < 2 * i /\ 2 * i <= j * (j + 1)

NamedEvents ==
    [i \in 1..((ManyNames * (ManyNames + 1)) \div 2) |->
        [id |-> EventId(i),
         ev |-> <<Cell(KStatus, IF i % 3 = 0 THEN Failed ELSE Success),
                  Cell(KQName, Txt(<<"n" \o IntText(NameNo(i))>>))>>]]

CatalogMappings(m) ==
    {NamedEvents} \cup
    UNION {{[i \in 1..n |-> [id |-> EventId(i), ev |-> evs[i]]] :
               evs \in [1..n -> CatalogEvents]} : n \in 0..m}

\* normalize_events has returned the frame of the uploaded mapping.
InitCatalog ==
    /\ raw \in CatalogMappings(MaxCatalogEvents)
    /\ rows = [i \in 1..Len(raw) |-> BaseOf(raw[i].id, raw[i].ev)]
    /\ idx = Len(raw) + 1
    /\ pc = "done"
    /\ df = DataFrame(rows)
    /\ prev = <<>>
    /\ res = NoCall
    /\ query = <<>>
    /\ result = NoResult
    /\ CacheUnused

NextCatalog == BuildCatalog

SpecCatalog == InitCatalog /\ [][NextCatalog]_vars

-----------------------------------------------------------------------------
(* cache.py: QueryCache *)
(*                                                                         *)
(* The QueryCache object is the record [_cache, _max_size, _ttl]; _cache   *)
(* (a Python dict) is the sequence of its entries [key, result,            *)
(* timestamp] in insertion order. A context (a Python dict) is the         *)
(* sequence of its items [k, v] in insertion order. time.time() is the     *)
(* integer clock. sha256 is taken to be free of collisions and the text   *)
(* hashed to determine its two parts, so a key is the query and the        *)
(* sorted items.                                                           *)

\* The order of Python on the context keys of the model.
CtxKeys == <<"a", "b">>

Rank(k) == CHOOSE i \in 1..Len(CtxKeys) : CtxKeys[i] = k

\* sorted(context.items()): the keys of a dict are distinct, so the order
\* of the items is the order of their keys.
SortedItems(context) ==
    [i \in 1..Len(context) |->
        CHOOSE it \in {context[j] : j \in 1..Len(context)} :
            Cardinality({j \in 1..Len(context) : Rank(context[j].k) < Rank(it.k)}) = i - 1]

\* _compute_key without the sort of the items.
_compute_key_Unsorted(q, context) == <<q, context>>

\* _compute_key(query, context)
_compute_key(q, context) == <<q, SortedItems(context)>>

\* QueryCache(max_size, ttl)
QueryCache(max_size, ttl) == [_cache |-> <<>>, _max_size |-> max_size, _ttl |-> ttl]

\* The positions of key in the dict: none or one.
At(d, key) == {i \in 1..Len(d) : d[i].key = key}

\* del d[key], for a key of d
Del(d, key) == SelectSeq(d, LAMBDA e : e.key # key)

\* d[key] = entry: a key of d keeps its position, a new one goes last.
Put(d, entry) ==
    IF At(d, entry.key) = {}
    THEN Append(d, entry)
    ELSE [i \in 1..Len(d) |-> IF d[i].key = entry.key THEN entry ELSE d[i]]

\* min(d.keys(), key=timestamp): the first key with the least timestamp.
Oldest(d) ==
    LET i == CHOOSE j \in 1..Len(d) :
                 /\ \A h \in 1..Len(d) : d[j].timestamp <= d[h].timestamp
                 /\ \A h \in 1..(j - 1) : d[h].timestamp > d[j].timestamp
    IN  d[i].key

\* get that never looks at the age of the entry.
get_IgnoresTtl(c, now, q, context) ==
    LET key == _compute_key(q, context)
    IN  IF At(c._cache, key) = {}
        THEN [cache |-> c, ret |-> None]
        ELSE [cache |-> c, ret |-> c._cache[CHOOSE i \in At(c._cache, key) : TRUE].result]

\* QueryCache.get run alone: the cache it leaves and the value it returns.
get(c, now, q, context) ==
    LET key == _compute_key(q, context)
    IN  IF At(c._cache, key) = {}
        THEN [cache |-> c, ret |-> None]
        ELSE LET entry == c._cache[CHOOSE i \in At(c._cache, key) : TRUE]
             IN  IF now - entry.timestamp <= c._ttl
                 THEN [cache |-> c, ret |-> entry.result]
                 ELSE [cache |-> [c EXCEPT !._cache = Del(c._cache, key)],
                       ret |-> None]

\* set that never evicts.
set_NoEviction(c, now, q, context, r) ==
    LET key == _compute_key(q, context)
    IN  [cache |-> [c EXCEPT !._cache =
                        Put(c._cache, [key |-> key, result |-> r, timestamp |-> now])],
         exc |-> ""]

\* QueryCache.set run alone: the cache it leaves, and the exception of
\* min() on an empty dict.
set(c, now, q, context, r) ==
    LET key == _compute_key(q, context)
    IN  IF Len(c._cache) >= c._max_size /\ c._cache = <<>>
        THEN [cache |-> c, exc |-> "ValueError"]
        ELSE LET d == IF Len(c._cache) >= c._max_size
                      THEN Del(c._cache, Oldest(c._cache))
                      ELSE c._cache
             IN  [cache |-> [c EXCEPT !._cache =
                                 Put(d, [key |-> key, result |-> r, timestamp |-> now])],
                  exc |-> ""]

\* What a caller holds: its position in get or set ("idle" between calls),
\* the call and its arguments, its locals, what the call returned or
\* raised, and the number of calls it has made.
Idle ==
    [pc |-> "idle", op |-> "none", query |-> "", context |-> <<>>, result |-> None,
     key |-> <<>>, entry |-> None, oldest |-> <<>>, ret |-> None, exc |-> "", n |-> 0]

\* The (query, context) an entry is stored for, the context as a set of items.
Owner(q, context) == <<q, {context[i] : i \in 1..Len(context)}>>

\* hist after a set
Stored(h, q, context, r) ==
    [o \in DOMAIN h \cup {Owner(q, context)} |->
        IF o = Owner(q, context) THEN r ELSE h[o]]

\* The analyzer takes no part in the runs of the cache.
AnalyzerUnused ==
    /\ raw = <<>>
    /\ rows = <<>>
    /\ idx = 1
    /\ pc = "cache"
    /\ df = <<>>
    /\ prev = <<>>
    /\ res = NoCall
    /\ query = <<>>
    /\ result = NoResult

MaxSlots == 2
MaxTtl == 1
MaxClock == 3
MaxCalls == 3
NumCallers == 2

\* The calls of the runs: two query texts, and one context written in the
\* two orders of its items.
ItemA == [k |-> "a", v |-> 1]
ItemB == [k |-> "b", v |-> 1]

CacheCalls ==
    {<<"q1", <<>>>>, <<"q1", <<ItemA, ItemB>>>>, <<"q1", <<ItemB, ItemA>>>>,
     <<"q2", <<>>>>}

CacheResults == {Txt(<<"r1">>), Txt(<<"r2">>)}

\* The calls of the callers that share the cache.
SharedCalls == {<<"q1", <<>>>>, <<"q2", <<>>>>}

\* The calls made so far by all callers.
RECURSIVE CallsMade(_)
CallsMade(t) == IF t = 0 THEN 0 ELSE thr[t].n + CallsMade(t - 1)

\* The caches of the runs: max_size from 1 on, ttl from 0 on.
NewCaches == {QueryCache(m, t) : m \in 1..MaxSlots, t \in 0..MaxTtl}

\* time.time() advances.
Tick ==
    /\ clock < MaxClock
    /\ clock' = clock + 1
    /\ UNCHANGED <<cache, thr, hist>>
    /\ UNCHANGED avars

(* One caller: every call runs alone, from its first line to its return. *)

InitCache ==
    /\ AnalyzerUnused
    /\ cache \in NewCaches
    /\ clock = 0
    /\ thr = <<Idle>>
    /\ hist = <<>>

\* query_cache.get(query, context)
CacheGet(q, context) ==
    LET out == get(cache, clock, q, context)
    IN  /\ cache' = out.cache
        /\ thr' = <<[Idle EXCEPT !.op = "get", !.query = q, !.context = context,
                                 !.ret = out.ret]>>
        /\ UNCHANGED <<clock, hist>>
        /\ UNCHANGED avars

\* query_cache.set(query, context, result)
CacheSet(q, context, r) ==
    LET out == set(cache, clock, q, context, r)
    IN  /\ cache' = out.cache
        /\ thr' = <<[Idle EXCEPT !.op = "set", !.query = q, !.context = context,
                                 !.result = r, !.exc = out.exc]>>
        /\ hist' = IF out.exc = "" THEN Stored(hist, q, context, r) ELSE hist
        /\ UNCHANGED clock
        /\ UNCHANGED avars

NextCache ==
    \/ Tick
    \/ \E c \in CacheCalls : CacheGet(c[1], c[2])
    \/ \E c \in CacheCalls, r \in CacheResults : CacheSet(c[1], c[2], r)

SpecCache == InitCache /\ [][NextCache]_vars

(* Several callers on the shared cache. Nothing in cache.py holds a lock, *)
(* so a caller may be preempted between any two accesses to the dict.     *)

InitShared ==
    /\ AnalyzerUnused
    /\ cache \in NewCaches
    /\ clock = 0
    /\ thr = [t \in 1..NumCallers |-> Idle]
    /\ hist = <<>>

Return(t, v) == [thr EXCEPT ![t].pc = "idle", ![t].ret = v]

RaiseIn(t, e) == [thr EXCEPT ![t].pc = "idle", ![t].exc = e]

\* A caller enters get: line 31.
CallGet(t, q, context) ==
    /\ thr[t].pc = "idle"
    /\ CallsMade(NumCallers) < MaxCalls
    /\ thr[t].exc = ""
    /\ thr' = [thr EXCEPT ![t] = [Idle EXCEPT !.pc = "get_test", !.op = "get",
                                     !.query = q, !.context = context,
                                     !.key = _compute_key(q, context),
                                     !.n = thr[t].n + 1]]
    /\ UNCHANGED <<cache, clock, hist>>
    /\ UNCHANGED avars

\* if key in self._cache: line 32 (and the return of line 37)
GetTest(t) ==
    /\ thr[t].pc = "get_test"
    /\ thr' = IF At(cache._cache, thr[t].key) # {}
              THEN [thr EXCEPT ![t].pc = "get_read"]
              ELSE Return(t, None)
    /\ UNCHANGED <<cache, clock, hist>>
    /\ UNCHANGED avars

\* entry = self._cache[key]: line 33
GetRead(t) ==
    /\ thr[t].pc = "get_read"
    /\ thr' = IF At(cache._cache, thr[t].key) = {}
              THEN RaiseIn(t, "KeyError")
              ELSE [thr EXCEPT ![t].pc = "get_age",
                               ![t].entry = cache._cache[CHOOSE i \in At(cache._cache, thr[t].key) : TRUE]]
    /\ UNCHANGED <<cache, clock, hist>>
    /\ UNCHANGED avars

\* if time.time() - entry['timestamp'] <= self._ttl: lines 34-35
GetAge(t) ==
    /\ thr[t].pc = "get_age"
    /\ thr' = IF clock - thr[t].entry.timestamp <= cache._ttl
              THEN Return(t, thr[t].entry.result)
              ELSE [thr EXCEPT ![t].pc = "get_del"]
    /\ UNCHANGED <<cache, clock, hist>>
    /\ UNCHANGED avars

\* del self._cache[key]: line 36 (and the return of line 37)
GetDel(t) ==
    /\ thr[t].pc = "get_del"
    /\ IF At(cache._cache, thr[t].key) = {}
       THEN /\ thr' = RaiseIn(t, "KeyError")
            /\ UNCHANGED cache
       ELSE /\ thr' = Return(t, None)
            /\ cache' = [cache EXCEPT !._cache = Del(cache._cache, thr[t].key)]
    /\ UNCHANGED <<clock, hist>>
    /\ UNCHANGED avars

\* A caller enters set: line 43.
CallSet(t, q, context, r) ==
    /\ thr[t].pc = "idle"
    /\ CallsMade(NumCallers) < MaxCalls
    /\ thr[t].exc = ""
    /\ thr' = [thr EXCEPT ![t] = [Idle EXCEPT !.pc = "set_len", !.op = "set",
                                     !.query = q, !.context = context,
                                     !.result = r,
                                     !.key = _compute_key(q, context),
                                     !.n = thr[t].n + 1]]
    /\ UNCHANGED <<cache, clock, hist>>
    /\ UNCHANGED avars

\* if len(self._cache) >= self._max_size: line 46
SetLen(t) ==
    /\ thr[t].pc = "set_len"
    /\ thr' = IF Len(cache._cache) >= cache._max_size
              THEN [thr EXCEPT ![t].pc = "set_min"]
              ELSE [thr EXCEPT ![t].pc = "set_put"]
    /\ UNCHANGED <<cache, clock, hist>>
    /\ UNCHANGED avars

\* oldest_key = min(self._cache.keys(), ...): line 47
SetMin(t) ==
    /\ thr[t].pc = "set_min"
    /\ thr' = IF cache._cache = <<>>
              THEN RaiseIn(t, "ValueError")
              ELSE [thr EXCEPT ![t].pc = "set_evict", ![t].oldest = Oldest(cache._cache)]
    /\ UNCHANGED <<cache, clock, hist>>
    /\ UNCHANGED avars

\* del self._cache[oldest_key]: line 48
SetEvict(t) ==
    /\ thr[t].pc = "set_evict"
    /\ IF At(cache._cache, thr[t].oldest) = {}
       THEN /\ thr' = RaiseIn(t, "KeyError")
            /\ UNCHANGED cache
       ELSE /\ thr' = [thr EXCEPT ![t].pc = "set_put"]
            /\ cache' = [cache EXCEPT !._cache = Del(cache._cache, thr[t].oldest)]
    /\ UNCHANGED <<clock, hist>>
    /\ UNCHANGED avars

\* self._cache[key] = {'result': result, 'timestamp': time.time()}: lines 50-53
SetPut(t) ==
    /\ thr[t].pc = "set_put"
    /\ cache' = [cache EXCEPT !._cache =
                    Put(cache._cache, [key |-> thr[t].key, result |-> thr[t].result,
                                       timestamp |-> clock])]
    /\ thr' = [thr EXCEPT ![t].pc = "idle"]
    /\ hist' = Stored(hist, thr[t].query, thr[t].context, thr[t].result)
    /\ UNCHANGED clock
    /\ UNCHANGED avars

NextShared ==
    \/ Tick
    \/ \E t \in 1..NumCallers :
          \/ \E c \in SharedCalls : CallGet(t, c[1], c[2])
          \/ \E c \in SharedCalls : CallSet(t, c[1], c[2], Txt(<<"r1">>))
          \/ GetTest(t)
          \/ GetRead(t)
          \/ GetAge(t)
          \/ GetDel(t)
          \/ SetLen(t)
          \/ SetMin(t)
          \/ SetEvict(t)
          \/ SetPut(t)

SpecShared == InitShared /\ [][NextShared]_vars

-----------------------------------------------------------------------------
(* Vocabulary of the claims about resolution *)

\* Value `got` is the text of cell value v, surrounding whitespace aside.
ReadFrom(got, v) == got.t = "str" /\ Strip(got.s) = Strip(PyStr(v))

\* The scalar cells of direction `dir` whose key ends in one of `suffixes`.
Candidates(ev, dir, suffixes) ==
    {c \in 1..Len(ev) :
        /\ StartsWith(ev[c].k, dir)
        /\ \E suf \in suffixes : EndsWith(ev[c].k, <<suf>>)
        /\ _is_scalar(ev[c].v)}

\* Those of them whose root is the preferred root (none when no root is
\* supplied).
OfRoot(ev, cs, root) == {c \in cs : Truthy(root) /\ <<ev[c].k[2]>> = root.s}

\* Priority group g of the four-group search.
Group(ev, suffixes, root, g) ==
    CASE g = 1 -> OfRoot(ev, Candidates(ev, "output", suffixes), root)
      [] g = 2 -> Candidates(ev, "output", suffixes)
      [] g = 3 -> OfRoot(ev, Candidates(ev, "input", suffixes), root)
      [] OTHER -> Candidates(ev, "input", suffixes)

\* The first non-empty group among groups 1..last, or {}.
FirstGroup(ev, suffixes, root, last) ==
    LET full == {g \in 1..last : Group(ev, suffixes, root, g) # {}}
    IN  IF full = {} THEN {}
        ELSE Group(ev, suffixes, root, CHOOSE g \in full : \A h \in full : g <= h)

Shortest(ev, cs) ==
    {c \in cs : \A d \in cs : KeyLen(ev[c].k) <= KeyLen(ev[d].k)}

\* C1: once normalize_events has returned, every raw key of every event is
\* a field of that event's record (the row that `select *` projects).
C1_RawKeysAreColumns ==
    pc = "done" =>
        \A i \in 1..Len(raw) : \A c \in 1..Len(raw[i].ev) :
            NameOf(raw[i].ev[c].k) \in DOMAIN df[i]

\* C2: event_name and isfire of a record are read from the first non-empty
\* of the four priority groups (output of the preferred root, any output,
\* input of the preferred root, any input), and are None only when all four
\* groups are empty.
C2_FourGroupSearch ==
    pc = "done" =>
        \A i \in 1..Len(raw) :
            LET ev == raw[i].ev
                gName == FirstGroup(ev, {"event_name"}, ObjRoot(ev), 4)
                gFire == FirstGroup(ev, {"isfire"}, None, 4)
            IN  /\ IF gName = {} THEN df[i].event_name = None
                   ELSE \E c \in gName : ReadFrom(df[i].event_name, ev[c].v)
                /\ IF gFire = {} THEN df[i].isfire = None
                   ELSE \E c \in gFire : ReadFrom(df[i].isfire, ev[c].v)

\* C3: each resolver returns the value of a shortest key of the first
\* non-empty group of its ladder, the preferred-root group included.
C3_ShortestKeyInGroup ==
    res.fn = "resolve" =>
        LET ev == raw[1].ev
            sufs == {res.suffixes[j] : j \in 1..Len(res.suffixes)}
            gIo == FirstGroup(ev, sufs, res.prefer_root, 4)
            gOut == FirstGroup(ev, {res.suffixes[1]}, res.prefer_root, 2)
        IN  /\ res.io[1] # None =>
                  \E c \in Shortest(ev, gIo) : ReadFrom(res.io[1], ev[c].v)
            /\ res.out[1] # None =>
                  \E c \in Shortest(ev, gOut) : ReadFrom(res.out[1], ev[c].v)

\* C4: an event holding a scalar output key of root str(object_id) that
\* ends in event_name gets its event_name from a key of that root.
C4_OwnRootPreferred ==
    pc = "done" =>
        \A i \in 1..Len(raw) :
            LET ev == raw[i].ev
                oid == Get(ev, "object_id")
                own == {c \in Candidates(ev, "output", {"event_name"}) :
                           <<ev[c].k[2]>> = PyStr(oid)}
            IN  (oid # None /\ own # {}) =>
                    \E c \in own : ReadFrom(df[i].event_name, ev[c].v)

\* C5: email follows the priority ladder: with a scalar output key and a
\* scalar input key ending in primary_email, the output key's value is
\* taken, whatever the order of the keys.
C5_EmailOutputBeforeInput ==
    pc = "done" =>
        \A i \in 1..Len(raw) :
            LET ev == raw[i].ev
                outs == Candidates(ev, "output", {"primary_email"})
                ins == Candidates(ev, "input", {"primary_email"})
            IN  (outs # {} /\ ins # {}) =>
                    \E c \in outs : ReadFrom(df[i].email, ev[c].v)

\* C6: every suffix-resolved canonical field of a record is None or a str.
C6_CanonicalFieldsAreText ==
    pc = "done" =>
        \A i \in 1..Len(df) :
            \A f \in SuffixFields \cup {"event_name", "isfire"} :
                df[i][f].t \in {"none", "str"}

\* C7: a value a resolver returns is a str without leading or trailing
\* whitespace.
C7_ResolvedValuesTrimmed ==
    res.fn = "resolve" =>
        \A got \in {res.io[1], res.out[1]} :
            got # None => got.t = "str" /\ Strip(got.s) = got.s

\* C8: normalize_events appends one record per event in the order of the
\* mapping, each with the mapping key as event_id; it returns as many rows
\* as there are events, a later call on the same mapping returns the same
\* frame, and no step changes the mapping.
C8_RowsFollowMapping ==
    /\ Len(rows) = idx - 1
    /\ \A j \in 1..Len(rows) : rows[j].event_id = Txt(<<raw[j].id>>)
    /\ pc = "done" =>
          /\ Len(df) = Len(raw)
          /\ \A j \in 1..Len(df) : df[j].event_id = Txt(<<raw[j].id>>)
          /\ prev # <<>> => prev[1] = df

C8_OneRecordPerEvent == [](C8_RowsFollowMapping) /\ [][raw' = raw]_vars

\* C8's case: a mapping of several events, inserted in another order than
\* that of their ids, normalised a second time.
C8_Witness ==
    /\ pc = "done"
    /\ prev # <<>>
    /\ Len(raw) >= 2
    /\ raw[1].id = EventId(2)
    /\ \E i \in 1..Len(raw) : raw[i].ev # <<>>

-----------------------------------------------------------------------------
(* Vocabulary of the claims about queries *)

\* event_data[k], or None
GetKey(ev, k) ==
    IF \E c \in 1..Len(ev) : ev[c].k = k
    THEN ev[CHOOSE c \in 1..Len(ev) : ev[c].k = k].v
    ELSE None

\* The keys that occur in the events of the raw mapping.
KeysIn(m) == UNION {{m[i].ev[c].k : c \in 1..Len(m[i].ev)} : i \in 1..Len(m)}

\* The event ids of a sequence of rows, in order.
IdsOf(rs) == [j \in 1..Len(rs) |-> rs[j].event_id]

\* The ids of the events at the positions `keep` of the raw mapping.
RawIds(keep) == IdsOf(Pick([i \in 1..Len(raw) |-> [event_id |-> Txt(<<raw[i].id>>)]], keep))

\* C9: for a raw key k of the dataset, `where k == "v"` returns exactly the
\* events whose raw value for k is v, with total_rows their number, and
\* `count by k` returns one row per distinct value of k.
C9_RawKeysQueryable ==
    (pc = "done" /\ result.kind # "none" /\ raw # <<>>) =>
        \A k \in KeysIn(raw) :
            /\ \A v \in QueryValues :
                  query = WhereEq(NameOf(k), v) =>
                      LET hits == {i \in 1..Len(raw) : GetKey(raw[i].ev, k) = v}
                      IN  /\ result.kind = "ok"
                          /\ IdsOf(result.rows) = RawIds(hits)
                          /\ result.meta.total_rows = Num(Cardinality(hits))
            /\ query = CountByCol(NameOf(k)) =>
                  /\ result.kind = "ok"
                  /\ Len(result.rows) =
                         Cardinality({GetKey(raw[i].ev, k) : i \in 1..Len(raw)})

\* C10: on a dataset whose isfire values are yes or no, the query
\* where event_name == "Schedule" and isfire == true returns exactly the
\* events whose event_name is Schedule and whose isfire is yes.
C10_ScheduleFiredRows ==
    (/\ pc = "done"
     /\ query = ScheduleFired
     /\ df # <<>>
     /\ \A i \in 1..Len(df) : df[i].isfire \in {Yes, No}) =>
        /\ result.kind = "ok"
        /\ IdsOf(result.rows) =
               RawIds({i \in 1..Len(df) :
                          df[i].event_name = Schedule /\ df[i].isfire = Yes})

-----------------------------------------------------------------------------
(* Vocabulary of the claims about pagination and grouping *)

HasClause(q, kw) == \E i \in 1..Len(q) : q[i].kw = kw
ClauseOf(q, kw) == q[CHOOSE i \in 1..Len(q) : q[i].kw = kw]

\* The limit and offset tokens of a text are integers or sentinels.
WellFormed(q) ==
    /\ HasClause(q, "limit") =>
           \/ ClauseOf(q, "limit").token.t = "int"
           \/ ClauseOf(q, "limit").token \in {Txt(<<"all">>), Txt(<<"*">>)}
    /\ HasClause(q, "offset") => ClauseOf(q, "offset").token.t = "int"

\* The text asks for no grouping (the non-grouped path).
Plain(q) == ~HasClause(q, "count by") /\ ~HasClause(q, "group by")

\* The text carries `limit <integer>`.
IntLimit(q) == HasClause(q, "limit") /\ ClauseOf(q, "limit").token.t = "int"

\* The offset a well-formed text asks for.
OffsetOf(q) == IF HasClause(q, "offset") THEN ClauseOf(q, "offset").token.n ELSE 0

\* The filtered records: those of the frame the where clause keeps.
Filtered(frame, q) ==
    IF HasClause(q, "where") THEN ApplyWhere(frame, ClauseOf(q, "where").pred).frame
    ELSE frame

\* Positions first..last of a sequence, as far as it reaches.
Positions(s, first, last) == SubSeq(s, first, IF last <= Len(s) THEN last ELSE Len(s))

\* A call of run_query on a non-empty dataset has returned or raised.
Queried == pc = "done" /\ result.kind # "none" /\ df # <<>>

\* C11: on the non-grouped path a text with no `select *`, no limit and no
\* offset returns the first min(100, n) of the n filtered records in order,
\* with meta.limit 100, meta.offset 0, meta.total_rows n and a note that the
\* default limit was applied.
C11_DefaultCap ==
    (/\ Queried
     /\ Plain(query)
     /\ ~HasClause(query, "select *")
     /\ ~HasClause(query, "limit")
     /\ ~HasClause(query, "offset")) =>
        LET f == Filtered(df, query)
        IN  /\ result.kind = "ok"
            /\ result.rows = Positions(f, 1, 100)
            /\ DOMAIN result.meta = {"rows", "total_rows", "limit", "offset", "note"}
            /\ result.meta.limit = Num(100)
            /\ result.meta.offset = Num(0)
            /\ result.meta.total_rows = Num(Len(f))
            /\ result.meta.note = Txt(<<"default", " ", "limit", " ", "applied">>)

\* C11's case: more than 100 records match and exactly 100 are returned.
C11_Witness ==
    /\ Queried
    /\ query = <<Where(<<Eq("status", Success)>>)>>
    /\ Len(Filtered(df, query)) > 100
    /\ Len(result.rows) = 100

\* C12: on the non-grouped path a text with `limit all` or `limit *`, with
\* or without `select *`, returns every filtered record from the offset
\* onward and reports meta.limit as null.
C12_LimitAllUncapped ==
    (/\ Queried
     /\ Plain(query)
     /\ WellFormed(query)
     /\ HasClause(query, "limit")
     /\ ~IntLimit(query)) =>
        LET f == Filtered(df, query)
        IN  /\ result.kind = "ok"
            /\ result.rows = Positions(f, OffsetOf(query) + 1, Len(f))
            /\ result.meta.limit = None

\* C13: on the non-grouped path a text with an explicit integer limit L
\* and/or an explicit integer offset O, with or without `select *`, returns
\* exactly the filtered records at positions O .. O+L-1 (to the end without
\* a limit), with meta.rows the number returned and meta.total_rows the
\* number filtered.
C13_ExplicitWindow ==
    (/\ Queried
     /\ Plain(query)
     /\ WellFormed(query)
     /\ IntLimit(query) \/ (HasClause(query, "offset") /\ ~HasClause(query, "limit"))) =>
        LET f == Filtered(df, query)
            o == OffsetOf(query)
            last == IF IntLimit(query) THEN o + ClauseOf(query, "limit").token.n
                    ELSE Len(f)
        IN  /\ result.kind = "ok"
            /\ result.rows = Positions(f, o + 1, last)
            /\ result.meta.rows = Num(Len(result.rows))
            /\ result.meta.total_rows = Num(Len(f))

\* C14: on the non-grouped path a text with `select *` and neither limit nor
\* offset returns every filtered record in order, with meta.rows equal to
\* meta.total_rows and meta.limit null.
C14_SelectAllUncapped ==
    (/\ Queried
     /\ Plain(query)
     /\ HasClause(query, "select *")
     /\ ~HasClause(query, "limit")
     /\ ~HasClause(query, "offset")) =>
        LET f == Filtered(df, query)
        IN  /\ result.kind = "ok"
            /\ result.rows = f
            /\ result.meta.rows = Num(Len(f))
            /\ result.meta.total_rows = Num(Len(f))
            /\ result.meta.limit = None

\* C14's case: `select *` alone on a dataset of more than 100 records.
C14_Witness ==
    /\ Queried
    /\ query = <<SelectAll>>
    /\ Len(df) > 100
    /\ Len(result.rows) = Len(df)

\* The malformed limit and offset tokens of a text.
BadTokens(q) ==
    {q[i].token : i \in {j \in 1..Len(q) :
        \/ /\ q[j].kw = "limit"
           /\ q[j].token.t # "int"
           /\ q[j].token \notin {Txt(<<"all">>), Txt(<<"*">>)}
        \/ q[j].kw = "offset" /\ q[j].token.t # "int"}}

\* C15: on a non-empty dataset a text with a malformed limit or offset
\* token makes run_query raise an error that carries an offending token,
\* with no rows returned, wherever the clause stands in the pipe.
C15_MalformedTokenRaises ==
    (Queried /\ BadTokens(query) # {}) =>
        /\ result.kind = "error"
        /\ result.exc = "ValueError"
        /\ result.rows = <<>>
        /\ result.token \in BadTokens(query)

\* C15's case: the malformed limit clause stands last, after a filter and a
\* projection, and its token comes back in the error.
C15_Witness ==
    /\ Queried
    /\ Len(query) = 3
    /\ query[1].kw = "where"
    /\ query[3] = Limit(Txt(<<"abc">>))
    /\ result.kind = "error"
    /\ result.token = Txt(<<"abc">>)

\* C16: on an empty dataset run_query returns no rows and a meta holding a
\* note, for every DSL text, and raises nothing.
C16_EmptyDataset ==
    (pc = "done" /\ result.kind # "none" /\ df = <<>>) =>
        /\ result.kind = "ok"
        /\ result.rows = <<>>
        /\ DOMAIN result.meta = {"note"}
        /\ result.meta.note.t = "str" /\ result.meta.note.s # <<>>

\* C16's case: an empty dataset queried with a text that has an unparseable
\* predicate, an unknown grouping column and a malformed token.
C16_Witness ==
    /\ pc = "done"
    /\ raw = <<>>
    /\ result.kind = "ok"
    /\ HasClause(query, "where") /\ ClauseOf(query, "where").pred = <<Unparsed>>
    /\ HasClause(query, "count by") /\ ClauseOf(query, "count by").cols = <<"nope">>
    /\ BadTokens(query) # {}

\* The names in a sequence of columns.
Names(cols) == {cols[j] : j \in 1..Len(cols)}

\* C17: with both a `count by` and a `group by` clause, in either order, the
\* result is grouped by the columns of `count by`, and meta carries
\* count == true and group_by equal to those columns.
C17_CountByPrecedence ==
    (/\ Queried
     /\ WellFormed(query)
     /\ HasClause(query, "count by")
     /\ HasClause(query, "group by")
     /\ Names(ClauseOf(query, "count by").cols) \subseteq Columns(df)) =>
        LET cols == ClauseOf(query, "count by").cols
        IN  /\ result.kind = "ok"
            /\ \A j \in 1..Len(result.rows) :
                   DOMAIN result.rows[j] = Names(cols) \cup {"count"}
            /\ "count" \in DOMAIN result.meta
            /\ result.meta.count = Flag(TRUE)
            /\ result.meta.group_by = cols

\* The orders of n clauses.
Orders(n) == {p \in [1..n -> 1..n] : \A i, j \in 1..n : i < j => p[i] # p[j]}

\* C18: for a text of clauses of pairwise distinct types that returns a
\* result, every other order of its clauses returns the same rows and meta.
C18_ClauseOrderIrrelevant ==
    (pc = "done" /\ result.kind = "ok") =>
        \A p \in Orders(Len(query)) :
            run_query(df, [i \in 1..Len(query) |-> query[p[i]]]) = result

\* The text has exactly one grouping clause, on known columns.
Grouping(q) ==
    /\ HasClause(q, "count by") # HasClause(q, "group by")
    /\ LET g == IF HasClause(q, "count by") THEN ClauseOf(q, "count by")
                 ELSE ClauseOf(q, "group by")
       IN  Names(g.cols) \subseteq Columns(df)

GroupCols(q) ==
    IF HasClause(q, "count by") THEN ClauseOf(q, "count by").cols
    ELSE ClauseOf(q, "group by").cols

\* The distinct groups of the records f under cols: one row per key tuple,
\* at the place of the first record that has it, with the number of all
\* records of f that have it.
Groups(f, cols) ==
    LET firsts == {i \in 1..Len(f) :
                      \A h \in 1..(i - 1) : KeyOf(f[h], cols) # KeyOf(f[i], cols)}
        heads == Pick(f, firsts)
    IN  [j \in 1..Len(heads) |->
            [c \in Names(cols) \cup {"count"} |->
                IF c \in Names(cols) THEN heads[j][c]
                ELSE Num(Cardinality({i \in 1..Len(f) :
                         KeyOf(f[i], cols) = KeyOf(heads[j], cols)}))]]

RECURSIVE SumCounts(_)
SumCounts(rs) == IF rs = <<>> THEN 0 ELSE Head(rs).count.n + SumCounts(Tail(rs))

\* C19: with grouping, the rows returned are positions O .. O+L-1 (to the
\* end without an integer limit) of the sequence of distinct groups of all
\* filtered records, each with the count of all filtered records of its
\* key, and meta.total_rows is the number of distinct groups.
C19_GroupsThenWindow ==
    (Queried /\ WellFormed(query) /\ Grouping(query)) =>
        LET g == Groups(Filtered(df, query), GroupCols(query))
            o == OffsetOf(query)
            last == IF IntLimit(query) THEN o + ClauseOf(query, "limit").token.n
                    ELSE Len(g)
        IN  /\ result.kind = "ok"
            /\ result.rows = Positions(g, o + 1, last)
            /\ result.meta.total_rows = Num(Len(g))

\* C19's case: three or more groups, of which `offset 1` and `limit 1`
\* return the second alone, counted over all the records.
C19_Witness ==
    /\ Queried
    /\ HasClause(query, "count by")
    /\ HasClause(query, "offset") /\ ClauseOf(query, "offset").token = Num(1)
    /\ HasClause(query, "limit") /\ ClauseOf(query, "limit").token = Num(1)
    /\ result.kind = "ok"
    /\ result.meta.total_rows.n >= 3
    /\ Len(result.rows) = 1
    /\ result.rows[1].count.n > 1

\* C20: `count by` and `group by` without limit or offset return one row per
\* distinct key tuple of the filtered records in order of first appearance,
\* a record with a missing grouping value falls in a null-keyed group, each
\* count is the number of filtered records of the key, and the counts sum
\* to the number of filtered records; statuses success, success, failed,
\* success give success: 3, then failed: 1.
C20_OneRowPerKey ==
    (/\ Queried
     /\ Grouping(query)
     /\ ~HasClause(query, "limit")
     /\ ~HasClause(query, "offset")) =>
        LET f == Filtered(df, query)
            cols == GroupCols(query)
        IN  /\ result.kind = "ok"
            /\ result.rows = Groups(f, cols)
            /\ \A i \in 1..Len(f) :
                   \E j \in 1..Len(result.rows) :
                       KeyOf(result.rows[j], cols) = KeyOf(f[i], cols)
            /\ SumCounts(result.rows) = Len(f)
            /\ (raw = TestData /\ query = CountByCol("status")) =>
                   result.rows = <<[status |-> Success, count |-> Num(3)],
                                   [status |-> Failed, count |-> Num(1)]>>

\* C20's case: `group by status` where the first record has no status, so
\* the null-keyed group comes first.
C20_Witness ==
    /\ Queried
    /\ query = <<GroupBy(<<"status">>)>>
    /\ result.kind = "ok"
    /\ Len(result.rows) >= 2
    /\ result.rows[1].status = None

-----------------------------------------------------------------------------
(* Claims about errors and metadata of run_query *)

\* The grouping clause that counts: `count by` when there is one, else
\* `group by`.
Effective(q) ==
    IF HasClause(q, "count by") THEN ClauseOf(q, "count by")
    ELSE ClauseOf(q, "group by")

C23_MetaReportsFilterAndWindow ==
    (Queried /\ result.kind = "ok") =>
        LET f == Filtered(df, query)
            meta == result.meta
            all == IF "group_by" \in DOMAIN meta THEN Groups(f, meta.group_by) ELSE f
            last == IF meta.limit = None THEN Len(all)
                    ELSE meta.offset.n + meta.limit.n
        IN  /\ meta.total_rows = Num(Len(f))
            /\ result.rows = Positions(all, meta.offset.n + 1, last)
            /\ ("group_by" \in DOMAIN meta) <=> ~Plain(query)

\* The tokens of a predicate the restricted evaluator can use: col == "value"
\* or col == true/false on a column of the dataset.
Usable(frame, pred) ==
    {j \in 1..Len(pred) :
        /\ pred[j].form = "eq"
        /\ pred[j].lit.t \in {"str", "bool"}
        /\ pred[j].col \in Columns(frame)}

\* C22: a where clause never makes run_query raise: when the full
\* evaluator accepts the predicate the records satisfying all of it are
\* kept, otherwise the records satisfying every usable token, all records
\* when no token is usable.
C22_WhereDegradesGracefully ==
    (Queried /\ Len(query) = 1 /\ query[1].kw = "where") =>
        LET pred == query[1].pred
            terms == IF QueryRaises(df, pred) THEN Usable(df, pred)
                     ELSE 1..Len(pred)
            keep == {i \in 1..Len(df) :
                        \A j \in terms : PyEq(df[i][pred[j].col], pred[j].lit)}
        IN  /\ result.kind = "ok"
            /\ result.rows = Pick(df, keep)

-----------------------------------------------------------------------------
(* Claims about the catalog *)

\* The records of the frame whose value for col is v.
Holding(col, v) == {i \in 1..Len(df) : df[i][col] = v}

\* The distinct values of a column, the missing value among them.
Distinct(col) == {df[i][col] : i \in 1..Len(df)}

RECURSIVE SumOf(_)
SumOf(tab) == IF tab = <<>> THEN 0 ELSE Head(tab).count + SumOf(Tail(tab))

\* build_catalog has returned the catalog of a non-empty dataset.
Catalogued == pc = "done" /\ res.fn = "build_catalog" /\ df # <<>>

\* C25: in by_status and by_isfire the counts sum to the number of records,
\* the count under the null key is the number of records whose value is
\* missing, every other key's count is the number of records holding
\* exactly that value, and every value of the column, the missing one
\* included, has its entry.
C25_CountsExact ==
    Catalogued =>
        \A t \in {<<res.by_status, "status">>, <<res.by_isfire, "isfire">>} :
            LET tab == t[1]
                col == t[2]
            IN  /\ SumOf(tab) = Len(df)
                /\ \A j \in 1..Len(tab) :
                       tab[j].count = Cardinality(Holding(col, tab[j].key))
                /\ \A v \in Distinct(col) : \E j \in 1..Len(tab) : tab[j].key = v

\* A table lists the values of col by descending count, values of equal
\* count in the order of their first appearance in the dataset.
Ranked(tab, col) ==
    \A i, j \in 1..Len(tab) :
        i < j =>
            \/ tab[i].count > tab[j].count
            \/ /\ tab[i].count = tab[j].count
               /\ \E h \in Holding(col, tab[i].key) :
                      \A g \in Holding(col, tab[j].key) : h < g

-----------------------------------------------------------------------------
(* Claims about the cache *)

\* The entries of the cache.
Entries(c) == {c._cache[i] : i \in 1..Len(c._cache)}

\* The (query, context) an entry was stored for.
OwnerOf(e) == Owner(e.key[1], e.key[2])

\* The step is a call of set, or of get, by the one caller.
SetStep == pc = "cache" /\ thr'[1].op = "set" /\ clock' = clock

GetStep == pc = "cache" /\ thr'[1].op = "get" /\ clock' = clock

\* C27: with max_size >= 1 and the calls executed one after the other, the
\* number of stored entries never exceeds max_size.
C27_SizeBounded ==
    pc = "cache" => (cache._max_size >= 1 => Len(cache._cache) <= cache._max_size)

\* A set has just inserted into a cache that was full: more (query,
\* context) pairs have been stored than the cache can hold, and it is full.
C27_Witness ==
    /\ pc = "cache"
    /\ thr[1].op = "set"
    /\ Cardinality(DOMAIN hist) > cache._max_size
    /\ Len(cache._cache) = cache._max_size

\* C28: a set removes an entry only when it inserts a new key into a full
\* cache, and then exactly one, of the least timestamp; a set that
\* overwrites a present key, or on a cache that is not full, removes none.
C28_EvictsOnlyForNewKeyWhenFull ==
    [][SetStep =>
        LET o == Owner(thr'[1].query, thr'[1].context)
            removed == {e \in Entries(cache) :
                           \A e2 \in Entries(cache') : OwnerOf(e2) # OwnerOf(e)}
            isNew == \A e \in Entries(cache) : OwnerOf(e) # o
            full == Len(cache._cache) >= cache._max_size
        IN  IF isNew /\ full
            THEN \E e \in Entries(cache) :
                     /\ removed = {e}
                     /\ \A e2 \in Entries(cache) : e.timestamp <= e2.timestamp
            ELSE removed = {}]_vars

\* C29: get returns the result last stored for the same (query, context)
\* when its entry is in the table and not older than the TTL, None
\* otherwise; it deletes the entry it finds expired and changes no other
\* entry and no timestamp.
C29_GetReturnsFreshOrNone ==
    [][GetStep =>
        LET o == Owner(thr'[1].query, thr'[1].context)
            fresh == {e \in Entries(cache) :
                         OwnerOf(e) = o /\ clock - e.timestamp <= cache._ttl}
        IN  /\ thr'[1].exc = ""
            /\ thr'[1].ret = IF fresh # {} THEN hist[o] ELSE None
            /\ cache' = [cache EXCEPT !._cache =
                             SelectSeq(cache._cache,
                                       LAMBDA e : OwnerOf(e) # o
                                                  \/ clock - e.timestamp <= cache._ttl)]
            /\ hist' = hist]_vars

\* A get has returned, some time after the set, the result stored under
\* the same context written in the other order.
C29_Witness ==
    /\ pc = "cache"
    /\ thr[1].op = "get"
    /\ thr[1].context = <<ItemB, ItemA>>
    /\ thr[1].ret # None
    /\ \E e \in Entries(cache) : e.key[2] = <<ItemA, ItemB>> /\ e.timestamp < clock

\* C30: under every interleaving of the calls of several callers no call
\* fails on an entry another call has removed, and the number of entries
\* never exceeds max_size.
C30_CallsAreAtomic ==
    pc = "cache" =>
        /\ \A t \in DOMAIN thr : thr[t].exc = ""
        /\ Len(cache._cache) <= cache._max_size

====
